---- MODULE Spec2Model ----
(***************************************************************************)
(* forest_recom_parser (src/main.rs): loads a baseline table of units,     *)
(* then streams plan records; each plan reassigns units to districts, the  *)
(* per-district vote totals are recomputed, the districts won by election  *)
(* 1 are counted, and a running histogram of win counts is printed.        *)
(*                                                                         *)
(* Strings are sequences of one-character strings, so that the key         *)
(* decoding (trim, split, quote removal) and the ordering of the keys of a *)
(* JSON object are computed as the code computes them.                     *)
(***************************************************************************)
EXTENDS Integers, Sequences, FiniteSets

VARIABLES
    state,           \* driver position: LoadingBaseline, StreamingPlans, Done, Failed
    error,           \* why the run stopped: none, LoadError, DecodeError, IndexPanic
    district_list,   \* Vec<District>, main.rs:37
    district_map_2,  \* HashMap<(String, String), usize>, main.rs:45 (positions from 1)
    index,           \* number of lines of the plan stream consumed so far, main.rs:56
    line,            \* the line the latest iteration took from the stream (NoLine before any)
    stage,           \* how far the latest iteration went
    num_won,         \* num_won of the latest iteration that computed it, main.rs:99
    wins_counter,    \* main.rs:53, a function on 0..HistSize-1
    step_counter,    \* main.rs:54
    output           \* the lines printed so far, main.rs:108-109

vars == <<state, error, district_list, district_map_2, index, line, stage,
          num_won, wins_counter, step_counter, output>>

-----------------------------------------------------------------------------
(* Program constants *)

\* wins_counter = vec![0;20]
HistSize == 20
\* counts_election_1 = vec![0;100]
TotalsSize == 100
\* SkipCount one too small
SkipTwo == 1 + 1

\* if index < 3 { continue; }
SkipCount == 3
\* The vote totals are u64 and the running-average numerator is u32; the
\* inputs below keep every sum far under 2^31, so no sum reaches its width.

(* Bounds of the model *)

\* the plan stream has at most this many lines
MaxLines == 5

-----------------------------------------------------------------------------
(* Strings *)

Q == "\""

\* Code points of the characters the model's strings are made of (String's
\* Ord is the byte-wise lexicographic order).
Code(c) ==
    CASE c = " "  -> 32
      [] c = Q    -> 34
      [] c = ","  -> 44
      [] c = "0"  -> 48
      [] c = "1"  -> 49
      [] c = "A"  -> 65
      [] c = "B"  -> 66
      [] c = "C"  -> 67
      [] c = "X"  -> 88
      [] c = "Y"  -> 89
      [] c = "Z"  -> 90
      [] c = "["  -> 91
      [] c = "]"  -> 93
      [] c = "e"  -> 101

RECURSIVE StrLess(_, _)
StrLess(a, b) ==
    IF Len(a) = 0 THEN Len(b) > 0
    ELSE IF Len(b) = 0 THEN FALSE
    ELSE IF Code(a[1]) # Code(b[1]) THEN Code(a[1]) < Code(b[1])
    ELSE StrLess(Tail(a), Tail(b))

\* str::trim_start_matches(c): removes every leading c
RECURSIVE TrimStartMatches(_, _)
TrimStartMatches(s, c) ==
    IF Len(s) > 0 /\ s[1] = c THEN TrimStartMatches(Tail(s), c) ELSE s

\* str::trim_end_matches(c): removes every trailing c
RECURSIVE TrimEndMatches(_, _)
TrimEndMatches(s, c) ==
    IF Len(s) > 0 /\ s[Len(s)] = c
    THEN TrimEndMatches(SubSeq(s, 1, Len(s) - 1), c)
    ELSE s

\* the separator of split("\", \""): quote, comma, space, quote
Separator == <<Q, ",", " ", Q>>

\* position of the first occurrence of pat in s at or after i, 0 if none
RECURSIVE FindFrom(_, _, _)
FindFrom(s, pat, i) ==
    IF i + Len(pat) - 1 > Len(s) THEN 0
    ELSE IF SubSeq(s, i, i + Len(pat) - 1) = pat THEN i
    ELSE FindFrom(s, pat, i + 1)

\* str::split(pat): the pieces between the non-overlapping occurrences of
\* pat, found left to right; a string without pat is one piece
RECURSIVE Split(_, _)
Split(s, pat) ==
    LET i == FindFrom(s, pat, 1) IN
    IF i = 0 THEN <<s>>
    ELSE <<SubSeq(s, 1, i - 1)>> \o Split(SubSeq(s, i + Len(pat), Len(s)), pat)

\* s.replace("\"", ""): removes every quote
RECURSIVE RemoveQuotes(_)
RemoveQuotes(s) ==
    IF Len(s) = 0 THEN <<>>
    ELSE IF s[1] = Q THEN RemoveQuotes(Tail(s))
    ELSE <<s[1]>> \o RemoveQuotes(Tail(s))

\* assign_districts, main.rs:66-70
AssignDistricts(key) ==
    LET pieces == Split(TrimEndMatches(TrimStartMatches(key, "["), "]"), Separator)
    IN  [i \in 1..Len(pieces) |-> RemoveQuotes(pieces[i])]

-----------------------------------------------------------------------------
(* JSON values of plan entries *)

\* A value is [t, n]: t = "u64" is a non-negative integer n below 2^64;
\* "neg" is the integer -n; "float" is a number with a fraction or exponent;
\* "string" is the text of n in quotes; "null" is null.
\* serde_json::Value::as_u64: Some(n) for a non-negative integer, else None
AsU64(value) == IF value.t = "u64" THEN <<value.n>> ELSE <<>>

\* DistrictOf with a numeric string read as its number
DistrictOfLenient(value) == IF value.t \in {"u64", "string"} THEN value.n ELSE 0

\* value.as_u64().unwrap_or(0), main.rs:77, main.rs:83
DistrictOf(value) == IF AsU64(value) = <<>> THEN 0 ELSE AsU64(value)[1]

-----------------------------------------------------------------------------
(* Plan records *)

\* One member of a JSON object of the districting array, as written in the line
Entry(k, v) == [key |-> k, value |-> v]

\* the least string of a non-empty set of strings
MinKey(S) == CHOOSE k \in S : \A o \in S \ {k} : StrLess(k, o)

RECURSIVE SortKeys(_)
SortKeys(S) ==
    IF S = {} THEN <<>> ELSE <<MinKey(S)>> \o SortKeys(S \ {MinKey(S)})

\* position of the last member of the object with key k
LastMember(members, k) ==
    CHOOSE i \in DOMAIN members :
        /\ members[i].key = k
        /\ \A j \in DOMAIN members : members[j].key = k => j <= i

\* DistrictingItem(serde_json::Map<String, Value>), iterated by `&item.0`:
\* the map keeps one value per key (the last one written in the object) and
\* iterates in ascending key order.
MapIter(members) ==
    LET ks == SortKeys({members[i].key : i \in DOMAIN members})
    IN  [i \in 1..Len(ks) |->
            Entry(ks[i], members[LastMember(members, ks[i])].value)]

\* The (key, value) pairs of a record in the order the two loops visit them
RECURSIVE Pairs(_)
Pairs(districting) ==
    IF Len(districting) = 0 THEN <<>>
    ELSE MapIter(districting[1]) \o Pairs(Tail(districting))

\* The fields JsonlRecord requires
RequiredFields == {"name", "weight", "data", "districting"}

\* ParseOk without the check of the required fields
ParseOkAnyJson(l) == l.readable /\ l.json

\* the number of fields of JsonlRecord
FieldCount == Cardinality(RequiredFields)

\* the positions of the members of the line whose key is f
Occurrences(l, f) == {i \in DOMAIN l.fields : l.fields[i].name = f}

\* `line_result?` and serde_json::from_str::<JsonlRecord>.
\* A line is [readable, json, shape, fields, districting]: readable is false
\* when the reader returned an error, json is false when the text is not one
\* JSON value, shape is "object", "array" or "scalar", and fields is the
\* sequence of the members of the object or of the elements of the array, in
\* the order of the text, each [name, typed]: name is the key of the member
\* ("" in an array) and typed says that the value has the type JsonlRecord
\* declares for that field (for that position in an array).
\* The derived Deserialize takes an object in which every field of JsonlRecord
\* occurs exactly once with a value of its type (a field given twice is the
\* error "duplicate field", a key that is no field is ignored), or an array
\* of exactly the four values in the order of the declaration.
ParseOk(l) ==
    /\ l.readable
    /\ l.json
    /\ CASE l.shape = "object" ->
                \A f \in RequiredFields :
                   /\ Cardinality(Occurrences(l, f)) = 1
                   /\ \A i \in Occurrences(l, f) : l.fields[i].typed
         [] l.shape = "array" ->
                /\ Len(l.fields) = FieldCount
                /\ \A i \in DOMAIN l.fields : l.fields[i].typed
         [] OTHER -> FALSE

-----------------------------------------------------------------------------
(* Baseline *)

Unit(c, p, e1, e2, a) ==
    [county_name |-> c, precinct_name |-> p,
     election_1 |-> e1, election_2 |-> e2, assignment |-> a]

\* BuildIndex keeping the position of the first row of each identity
BuildIndexFirst(dl) ==
    [k \in {<<dl[i].county_name, dl[i].precinct_name>> : i \in DOMAIN dl} |->
        CHOOSE i \in DOMAIN dl :
            /\ <<dl[i].county_name, dl[i].precinct_name>> = k
            /\ \A j \in DOMAIN dl :
                  <<dl[j].county_name, dl[j].precinct_name>> = k => i <= j]

\* district_map_2: collecting (key, index) pairs into a HashMap keeps, for
\* each identity, the position of its last row.
BuildIndex(dl) ==
    [k \in {<<dl[i].county_name, dl[i].precinct_name>> : i \in DOMAIN dl} |->
        CHOOSE i \in DOMAIN dl :
            /\ <<dl[i].county_name, dl[i].precinct_name>> = k
            /\ \A j \in DOMAIN dl :
                  <<dl[j].county_name, dl[j].precinct_name>> = k => j <= i]

-----------------------------------------------------------------------------
(* Assignment of one plan *)

\* ApplyPair with a two-token key that is not in the index falling back to
\* the update of its whole county
ApplyPairUnknownAsCounty(dl, map, key, value) ==
    LET assign_districts == AssignDistricts(key) IN
    IF Len(assign_districts) = 1
       \/ (Len(assign_districts) = 2
           /\ <<assign_districts[1], assign_districts[2]>> \notin DOMAIN map)
    THEN [i \in DOMAIN dl |->
            IF dl[i].county_name = assign_districts[1]
            THEN [dl[i] EXCEPT !.assignment = DistrictOf(value)]
            ELSE dl[i]]
    ELSE IF Len(assign_districts) = 2
    THEN [dl EXCEPT
            ![map[<<assign_districts[1], assign_districts[2]>>]].assignment =
                DistrictOf(value)]
    ELSE dl

\* ApplyPair with the one-token update not comparing the county
ApplyPairCountyAll(dl, map, key, value) ==
    LET assign_districts == AssignDistricts(key) IN
    IF Len(assign_districts) = 1
    THEN [i \in DOMAIN dl |-> [dl[i] EXCEPT !.assignment = DistrictOf(value)]]
    ELSE IF Len(assign_districts) = 2
            /\ <<assign_districts[1], assign_districts[2]>> \in DOMAIN map
    THEN [dl EXCEPT
            ![map[<<assign_districts[1], assign_districts[2]>>]].assignment =
                DistrictOf(value)]
    ELSE dl

\* ApplyPair with a key of more than two tokens read as its first two
ApplyPairExtraTokensIgnored(dl, map, key, value) ==
    LET assign_districts == AssignDistricts(key) IN
    IF Len(assign_districts) = 1
    THEN [i \in DOMAIN dl |->
            IF dl[i].county_name = assign_districts[1]
            THEN [dl[i] EXCEPT !.assignment = DistrictOf(value)]
            ELSE dl[i]]
    ELSE IF Len(assign_districts) >= 2
            /\ <<assign_districts[1], assign_districts[2]>> \in DOMAIN map
    THEN [dl EXCEPT
            ![map[<<assign_districts[1], assign_districts[2]>>]].assignment =
                DistrictOf(value)]
    ELSE dl

\* ApplyPair with the indexed update storing a new record built from the key
ApplyPairReplacesRecord(dl, map, key, value) ==
    LET assign_districts == AssignDistricts(key) IN
    IF Len(assign_districts) = 1
    THEN [i \in DOMAIN dl |->
            IF dl[i].county_name = assign_districts[1]
            THEN [dl[i] EXCEPT !.assignment = DistrictOf(value)]
            ELSE dl[i]]
    ELSE IF Len(assign_districts) = 2
            /\ <<assign_districts[1], assign_districts[2]>> \in DOMAIN map
    THEN [dl EXCEPT
            ![map[<<assign_districts[1], assign_districts[2]>>]] =
                Unit(assign_districts[1], assign_districts[2], 0, 0, DistrictOf(value))]
    ELSE dl

\* the body of `for (key, value) in &item.0`
ApplyPair(dl, map, key, value) ==
    LET assign_districts == AssignDistricts(key) IN
    CASE Len(assign_districts) = 1 ->
            [i \in DOMAIN dl |->
                IF dl[i].county_name = assign_districts[1]
                THEN [dl[i] EXCEPT !.assignment = DistrictOf(value)]
                ELSE dl[i]]
      [] Len(assign_districts) = 2 ->
            IF <<assign_districts[1], assign_districts[2]>> \in DOMAIN map
            THEN [dl EXCEPT
                    ![map[<<assign_districts[1], assign_districts[2]>>]].assignment =
                        DistrictOf(value)]
            ELSE dl
      [] OTHER -> dl

\* ApplyPairs visiting the pairs from the last to the first
RECURSIVE ApplyPairsReversed(_, _, _)
ApplyPairsReversed(dl, map, pairs) ==
    IF Len(pairs) = 0 THEN dl
    ELSE ApplyPair(ApplyPairsReversed(dl, map, Tail(pairs)), map,
                   pairs[1].key, pairs[1].value)

RECURSIVE ApplyPairs(_, _, _)
ApplyPairs(dl, map, pairs) ==
    IF Len(pairs) = 0 THEN dl
    ELSE ApplyPairs(ApplyPair(dl, map, pairs[1].key, pairs[1].value), map, Tail(pairs))

\* ApplyPlan starting every plan from district 0 for every unit
ApplyPlanReset(dl, map, districting) ==
    ApplyPairs([i \in DOMAIN dl |-> [dl[i] EXCEPT !.assignment = 0]], map,
               Pairs(districting))

\* for item in record.districting { for (key, value) in &item.0 { ... } }
ApplyPlan(dl, map, districting) == ApplyPairs(dl, map, Pairs(districting))

-----------------------------------------------------------------------------
(* Aggregation and classification *)

Districts == 0..(TotalsSize - 1)

\* counts_election_1[dist.assignment as usize] panics when the index is not
\* below the length of the vector
TotalsPanic(dl) == \E i \in DOMAIN dl : dl[i].assignment >= TotalsSize

\* CountElection1 taking district 0 for "not assigned"
CountElection1SkipsZero(dl, d) ==
    LET acc[i \in 0..Len(dl)] ==
            IF i = 0 THEN 0
            ELSE acc[i - 1] + (IF dl[i].assignment = d /\ d # 0
                               THEN dl[i].election_1 ELSE 0)
    IN  acc[Len(dl)]

\* counts_election_1[d] after the loop over &district_list: the election_1
\* votes of the units whose assignment is d (acc[i] is the value after unit i)
CountElection1(dl, d) ==
    LET acc[i \in 0..Len(dl)] ==
            IF i = 0 THEN 0
            ELSE acc[i - 1] + (IF dl[i].assignment = d THEN dl[i].election_1 ELSE 0)
    IN  acc[Len(dl)]

\* CountElection2 reading the election_1 column
CountElection2CopyPaste(dl, d) ==
    LET acc[i \in 0..Len(dl)] ==
            IF i = 0 THEN 0
            ELSE acc[i - 1] + (IF dl[i].assignment = d THEN dl[i].election_1 ELSE 0)
    IN  acc[Len(dl)]

\* counts_election_2[d] after the loop over &district_list
CountElection2(dl, d) ==
    LET acc[i \in 0..Len(dl)] ==
            IF i = 0 THEN 0
            ELSE acc[i - 1] + (IF dl[i].assignment = d THEN dl[i].election_2 ELSE 0)
    IN  acc[Len(dl)]

\* Won with a tie counted as a win
WonOrTied(x, y) == IF x >= y THEN 1 ELSE 0

\* |(x,y)| if x > y {1u32} else {0u32}
Won(x, y) == IF x > y THEN 1 ELSE 0

\* the districts below TotalsSize that some unit is assigned to
Assigned(dl) == {dl[i].assignment : i \in DOMAIN dl} \cap Districts

\* the sum of the zipped and mapped totals: every district adds 1 or 0. The
\* totals of a district no unit is assigned to are still the (0, 0) that
\* vec![0;100] set, so these districts all add Won(0, 0).
NumWon(dl) ==
    Cardinality({d \in Assigned(dl) :
                    Won(CountElection1(dl, d), CountElection2(dl, d)) = 1})
    + (TotalsSize - Cardinality(Assigned(dl))) * Won(0, 0)

-----------------------------------------------------------------------------
(* Tally and report *)

Buckets == 0..(HistSize - 1)

\* wins_counter[num_won as usize] panics when num_won is not below 20
TallyPanic(n) == n >= HistSize

\* Tally adding 2
TallyTwice(wc, n) == [wc EXCEPT ![n] = @ + 2]

\* wins_counter[num_won as usize] += 1
Tally(wc, n) == [wc EXCEPT ![n] = @ + 1]

\* NextStep without the increment
NextStepStuck(sc) == sc

\* step_counter += 1
NextStep(sc) == sc + 1

\* AvgNumerator without the weights
AvgNumeratorUnweighted(wc) ==
    LET sum[a \in 0..HistSize] == IF a = 0 THEN 0 ELSE sum[a - 1] + wc[a - 1]
    IN  sum[HistSize]

\* wins_counter.iter().enumerate().map(|(a,&b)| a as u32*b as u32) ... sum::<u32>()
AvgNumerator(wc) ==
    LET sum[a \in 0..HistSize] ==
            IF a = 0 THEN 0 ELSE sum[a - 1] + (a - 1) * wc[a - 1]
    IN  sum[HistSize]

\* println!("{:?}", wins_counter)
HistogramLine(wc) ==
    [kind |-> "histogram", wins |-> wc, won |-> 0, step |-> 0, avg_num |-> 0]

\* println!("Number won {}, step {}, running avg {}", ...): the average is
\* avg_num as f64 / step as f64
SummaryLine(wc, n, sc) ==
    [kind |-> "summary", wins |-> wc, won |-> n, step |-> sc,
     avg_num |-> AvgNumerator(wc)]

-----------------------------------------------------------------------------
(* Inputs: the keys, values, lines and baseline files the runs draw from *)

\* ["c"]
CountyKey(c) == <<"[", Q, c, Q, "]">>
\* ["c", "p"]
UnitKey(c, p) == <<"[", Q, c, Q, ",", " ", Q, p, Q, "]">>
\* ["c", "p", "x"]
TripleKey(c, p, x) == <<"[", Q, c, Q, ",", " ", Q, p, Q, ",", " ", Q, x, Q, "]">>
\* ["c","p","x"], written without a space after the commas
TightTripleKey(c, p, x) == <<"[", Q, c, Q, ",", Q, p, Q, ",", Q, x, Q, "]">>

U(n) == [t |-> "u64", n |-> n]
Neg(n) == [t |-> "neg", n |-> n]
Str(n) == [t |-> "string", n |-> n]

\* A district index one past the totals storage
OutOfRange == TotalsSize

EntrySet ==
    { Entry(UnitKey("X", "A"), U(1)),
      Entry(UnitKey("X", "A"), Str(2)),
      Entry(UnitKey("X", "B"), U(1)),
      Entry(UnitKey("X", "B"), U(2)),
      Entry(UnitKey("X", "B"), Neg(1)),
      Entry(UnitKey("X", "B"), U(OutOfRange)),
      Entry(CountyKey("X"), U(3)),
      Entry(UnitKey("X", "C"), U(2)),
      Entry(TripleKey("X", "A", "e"), U(2)),
      Entry(TightTripleKey("X", "A", "e"), U(2)) }

\* the districting arrays of the well-formed records: no object, one object
\* of at most two members, or two objects of one member each
Districtings ==
    {<<>>, << <<>> >>}
    \cup {<< <<e>> >> : e \in EntrySet}
    \cup {<< <<e, f>> >> : e \in EntrySet, f \in EntrySet}
    \cup {<< <<e>>, <<f>> >> : e \in EntrySet, f \in EntrySet}

\* a member or element whose value has the declared type
Field(n) == [name |-> n, typed |-> TRUE]

\* a member or element whose value has another type, as "weight":"x"
Mistyped(n) == [name |-> n, typed |-> FALSE]

\* a line that was read and is one JSON value
JsonLine(shape, fields, d) ==
    [readable |-> TRUE, json |-> TRUE, shape |-> shape, fields |-> fields,
     districting |-> d]

\* {"name":..,"weight":..,"data":..,"districting":d}
Record(d) ==
    JsonLine("object", <<Field("name"), Field("weight"), Field("data"),
                         Field("districting")>>, d)

\* the record with a member that is no field of JsonlRecord, given twice
RecordWithUnknown(d) ==
    JsonLine("object", <<Field("name"), Field("note"), Field("weight"), Field("data"),
                         Field("districting"), Field("note")>>, d)

\* [name, weight, data, d]: the record written as an array
ArrayRecord(d) ==
    JsonLine("array", <<Field(""), Field(""), Field(""), Field("")>>, d)

\* a line that could not be read
Unreadable ==
    [readable |-> FALSE, json |-> FALSE, shape |-> "scalar", fields |-> <<>>,
     districting |-> <<>>]

\* a line that is not JSON
NotJson ==
    [readable |-> TRUE, json |-> FALSE, shape |-> "scalar", fields |-> <<>>,
     districting |-> <<>>]

\* the lines that do not decode: a line that could not be read, a line that
\* is not JSON, an object without the districting field, an object giving
\* name twice, an object giving districting twice, an object whose weight is
\* not a u32, an array of three values, an array of five values, and a
\* JSON value that is neither an object nor an array
BadLines ==
    { Unreadable,
      NotJson,
      JsonLine("object", <<Field("name"), Field("weight"), Field("data")>>, <<>>),
      JsonLine("object", <<Field("name"), Field("name"), Field("weight"), Field("data"),
                           Field("districting")>>,
               << <<Entry(UnitKey("X", "A"), U(1))>> >>),
      JsonLine("object", <<Field("name"), Field("weight"), Field("data"),
                           Field("districting"), Field("districting")>>,
               << <<Entry(UnitKey("X", "A"), U(1))>> >>),
      JsonLine("object", <<Field("name"), Mistyped("weight"), Field("data"),
                           Field("districting")>>, <<>>),
      JsonLine("array", <<Field(""), Field(""), Field("")>>, <<>>),
      JsonLine("array", <<Field(""), Field(""), Field(""), Field(""), Field("")>>, <<>>),
      JsonLine("scalar", <<>>, <<>>) }

\* the lines that decode: the records, and a record with members that are no
\* fields and a record written as an array
GoodLines ==
    {Record(d) : d \in Districtings}
    \cup {RecordWithUnknown(<< <<Entry(UnitKey("X", "B"), U(2))>> >>),
          ArrayRecord(<< <<Entry(UnitKey("X", "A"), U(1))>> >>)}

Lines == BadLines \cup GoodLines

\* what the leading lines of the stream are drawn from: the bad lines, a
\* record without pairs and a record that would move a unit
HeaderLines ==
    BadLines \cup {Record(<<>>), Record(<< <<Entry(UnitKey("X", "A"), U(1))>> >>)}

NoLine == Unreadable

\* A baseline file is [exists, rows_ok, rows]: rows_ok is false when some row
\* does not deserialize into District.
File(rows) == [exists |-> TRUE, rows_ok |-> TRUE, rows |-> rows]

Digit(n) == CASE n = 0 -> "0" [] n = 1 -> "1" [] n = 2 -> "A" [] n = 3 -> "B"
              [] n = 4 -> "C" [] n = 5 -> "X" [] n = 6 -> "Y" [] n = 7 -> "Z"
              [] n = 8 -> "e" [] n = 9 -> ","

\* the two units of county X of the scenarios
ScenarioRows ==
    << Unit(<<"X">>, <<"A">>, 10, 5, 0), Unit(<<"X">>, <<"B">>, 2, 8, 0) >>

\* two rows with the same identity, whose votes tie when they share a
\* district, and a unit of another county
DuplicateRows ==
    << Unit(<<"X">>, <<"A">>, 10, 5, 0), Unit(<<"X">>, <<"A">>, 2, 7, 4),
       Unit(<<"Y">>, <<"B">>, 4, 3, 2) >>

\* a baseline assignment outside the totals storage
OutOfRangeRows ==
    << Unit(<<"X">>, <<"A">>, 10, 5, OutOfRange), Unit(<<"X">>, <<"B">>, 2, 8, 0) >>

\* HistSize units of county Z, each alone in its district and won by election 1
ManyWinsRows ==
    [i \in 1..HistSize |->
        Unit(<<"Z">>, <<Digit((i - 1) \div 10), Digit((i - 1) % 10)>>, 1, 0, i - 1)]

Baselines ==
    { File(ScenarioRows), File(DuplicateRows), File(OutOfRangeRows), File(ManyWinsRows),
      [exists |-> FALSE, rows_ok |-> FALSE, rows |-> <<>>],
      [exists |-> TRUE, rows_ok |-> FALSE, rows |-> ScenarioRows] }

-----------------------------------------------------------------------------
(* The run *)

Init ==
    /\ state = "LoadingBaseline"
    /\ error = "none"
    /\ district_list = <<>>
    /\ district_map_2 = <<>>
    /\ index = 0
    /\ line = NoLine
    /\ stage = "none"
    /\ num_won = 0
    /\ wins_counter = [k \in Buckets |-> 0]
    /\ step_counter = 0
    /\ output = <<>>

\* main.rs:34-54: open and read the baseline, build the index, open the plan stream
LoadBaseline ==
    /\ state = "LoadingBaseline"
    /\ \E file \in Baselines, jsonl_exists \in BOOLEAN :
          IF ~file.exists \/ ~file.rows_ok
          THEN /\ state' = "Failed"
               /\ error' = "LoadError"
               /\ UNCHANGED <<district_list, district_map_2>>
          ELSE /\ district_list' = file.rows
               /\ district_map_2' = BuildIndex(file.rows)
               /\ IF jsonl_exists
                  THEN state' = "StreamingPlans" /\ error' = "none"
                  ELSE state' = "Failed" /\ error' = "LoadError"
    /\ UNCHANGED <<index, line, stage, num_won, wins_counter, step_counter, output>>

\* main.rs:56-110: one iteration of the loop over the lines of the plan stream
Iteration ==
    /\ state = "StreamingPlans"
    /\ index < MaxLines
    /\ \E l \in (IF index < SkipCount THEN HeaderLines ELSE Lines) :
        /\ index' = index + 1
        /\ UNCHANGED district_map_2
        /\ line' = l
        /\ IF index < SkipCount
           THEN /\ stage' = "skipped"
                /\ UNCHANGED <<state, error, district_list, num_won, wins_counter,
                               step_counter, output>>
           ELSE IF ~ParseOk(l)
           THEN /\ stage' = "decode_failed"
                /\ state' = "Failed"
                /\ error' = "DecodeError"
                /\ UNCHANGED <<district_list, num_won, wins_counter, step_counter, output>>
           ELSE /\ district_list' = ApplyPlan(district_list, district_map_2, l.districting)
                /\ IF TotalsPanic(district_list')
                   THEN /\ stage' = "totals_panic"
                        /\ state' = "Failed"
                        /\ error' = "IndexPanic"
                        /\ UNCHANGED <<num_won, wins_counter, step_counter, output>>
                   ELSE /\ num_won' = NumWon(district_list')
                        /\ IF TallyPanic(num_won')
                           THEN /\ stage' = "tally_panic"
                                /\ state' = "Failed"
                                /\ error' = "IndexPanic"
                                /\ UNCHANGED <<wins_counter, step_counter, output>>
                           ELSE /\ stage' = "reported"
                                /\ wins_counter' = Tally(wins_counter, num_won')
                                /\ step_counter' = NextStep(step_counter)
                                /\ output' = output \o
                                     << HistogramLine(wins_counter'),
                                        SummaryLine(wins_counter', num_won', step_counter') >>
                                /\ UNCHANGED <<state, error>>

\* main.rs:56, 112: the stream is exhausted and main returns Ok(())
EndOfStream ==
    /\ state = "StreamingPlans"
    /\ state' = "Done"
    /\ UNCHANGED <<error, district_list, district_map_2, index, line, stage, num_won,
                   wins_counter, step_counter, output>>

Next == LoadBaseline \/ Iteration \/ EndOfStream

Spec == Init /\ [][Next]_vars

-----------------------------------------------------------------------------
(* Vocabulary of the properties *)

\* the latest step consumed a line that is not one of the skipped leading ones
PlanStep == index' = index + 1 /\ index >= SkipCount

\* the latest iteration decoded its record and went on to apply it
Decoded == stage \in {"totals_panic", "tally_panic", "reported"}

\* the positions of the units a key addresses: every unit of the county for a
\* one-token key, the indexed unit for a two-token key, none otherwise
Targets(dl, map, key) ==
    LET toks == AssignDistricts(key) IN
    IF Len(toks) = 1 THEN {i \in DOMAIN dl : dl[i].county_name = toks[1]}
    ELSE IF Len(toks) = 2 /\ <<toks[1], toks[2]>> \in DOMAIN map
         THEN {map[<<toks[1], toks[2]>>]}
         ELSE {}

\* the greatest element of a non-empty set of numbers
Greatest(S) == CHOOSE x \in S : \A y \in S : y <= x

\* sum of the buckets of a histogram
SumBuckets(wc) ==
    LET sum[k \in 0..HistSize] == IF k = 0 THEN 0 ELSE sum[k - 1] + wc[k - 1]
    IN  sum[HistSize]

\* sum over k of k * wc[k]
WeightedBuckets(wc) ==
    LET sum[k \in 0..HistSize] == IF k = 0 THEN 0 ELSE sum[k - 1] + (k - 1) * wc[k - 1]
    IN  sum[HistSize]

\* sum of the win counts of the first k summary lines printed
WonSoFar(out, k) ==
    LET sum[j \in 0..k] == IF j = 0 THEN 0 ELSE sum[j - 1] + out[2 * j].won
    IN  sum[k]

-----------------------------------------------------------------------------
(* C1 *)

\* C1: in every reachable state the buckets of the win histogram add up to
\* the number of plans processed (both 0 before the first plan).
C1_HistogramInvariant == SumBuckets(wins_counter) = step_counter

\* two plans have been tallied
C1_Witness == stage = "reported" /\ step_counter = 2 /\ SumBuckets(wins_counter) = 2

-----------------------------------------------------------------------------
(* C2 *)

\* C2: when a decoded plan leaves a unit with an assignment outside the
\* totals storage, the run does not fail and the plan is tallied and reported.
C2_OutOfRangeDropped ==
    (Decoded /\ TotalsPanic(district_list)) =>
        (state # "Failed" /\ stage = "reported")

-----------------------------------------------------------------------------
(* C3 *)

\* C3: every step that decodes a plan raises the bucket of the plan's num_won
\* by exactly 1, raises the step count by exactly 1 and leaves every other
\* bucket unchanged; no step lowers a bucket or the step count.
C3_TallyExactMonotone ==
    [][ /\ (PlanStep /\ line' \notin BadLines) =>
              /\ step_counter' = step_counter + 1
              /\ num_won' \in Buckets
              /\ \A k \in Buckets :
                    wins_counter'[k] = wins_counter[k] + (IF k = num_won' THEN 1 ELSE 0)
        /\ step_counter' >= step_counter
        /\ \A k \in Buckets : wins_counter'[k] >= wins_counter[k] ]_vars

\* C3, on the steps that reach the tally update: exactly the bucket of num_won
\* and the step count rise by 1, and nothing ever decreases.
C3_TallyFrame ==
    [][ /\ stage' = "reported" /\ PlanStep =>
              /\ step_counter' = step_counter + 1
              /\ \A k \in Buckets :
                    wins_counter'[k] = wins_counter[k] + (IF k = num_won' THEN 1 ELSE 0)
        /\ step_counter' >= step_counter
        /\ \A k \in Buckets : wins_counter'[k] >= wins_counter[k] ]_vars

-----------------------------------------------------------------------------
(* C4 *)

\* C4: after a plan is applied, a unit that some pair of the plan addresses
\* has the district of the last such pair in the order the pairs are visited
\* (objects in array order, the members of one object in the map's order),
\* and a unit no pair addresses keeps its assignment.
C4_LastWriteWins ==
    [][ (PlanStep /\ line' \notin BadLines) =>
          \A ps \in {Pairs(line'.districting)} :
          \A tg \in {[j \in DOMAIN ps |->
                        Targets(district_list, district_map_2, ps[j].key)]} :
          \A i \in DOMAIN district_list :
          \A hits \in {{j \in DOMAIN ps : i \in tg[j]}} :
             district_list'[i].assignment =
                IF hits = {} THEN district_list[i].assignment
                ELSE DistrictOf(ps[Greatest(hits)].value) ]_vars

\* a county-only pair sent unit X/A to 3 and a later county+precinct pair of
\* the same plan sent it to 1: the unit is in 1 and its neighbour in 3
C4_Witness ==
    /\ stage = "reported"
    /\ line.districting = << <<Entry(CountyKey("X"), U(3))>>,
                             <<Entry(UnitKey("X", "A"), U(1))>> >>
    /\ Len(district_list) = 2
    /\ district_list[1].assignment = 1
    /\ district_list[2].assignment = 3

-----------------------------------------------------------------------------
(* C5 *)

\* a two-token key whose (county, precinct) is not in the identity index
UnknownUnit(p) ==
    LET toks == AssignDistricts(p.key) IN
    Len(toks) = 2 /\ <<toks[1], toks[2]>> \notin DOMAIN district_map_2

KnownPair(p) == ~UnknownUnit(p)

\* C5: the pairs of a plan whose county+precinct key is not in the identity
\* index change nothing: the plan leaves the units as the same plan without
\* these pairs would, a plan of such pairs alone changes no assignment, and
\* the record is not rejected.
C5_UnknownUnitNoOp ==
    [][ (PlanStep /\ line' \notin BadLines) =>
          \A ps \in {Pairs(line'.districting)} :
             /\ stage' # "decode_failed"
             /\ district_list' =
                   ApplyPairs(district_list, district_map_2, SelectSeq(ps, KnownPair))
             /\ (\A j \in DOMAIN ps : UnknownUnit(ps[j])) =>
                   district_list' = district_list ]_vars

\* a plan whose only pair addresses the unknown unit X/C was reported and the
\* two units are where the baseline put them
C5_Witness ==
    /\ stage = "reported"
    /\ line.districting = << <<Entry(UnitKey("X", "C"), U(2))>> >>
    /\ district_list = ScenarioRows

-----------------------------------------------------------------------------
(* C6 *)

\* C6: a step that consumes a malformed record moves the driver to Failed and
\* changes no unit, no tally value and no output line; once the driver is in
\* Failed no step changes anything, so no later record is reported and the
\* lines printed before stay.
C6_MalformedFatalAtomic ==
    [][ /\ (PlanStep /\ line' \in BadLines) =>
              /\ state' = "Failed"
              /\ UNCHANGED <<district_list, district_map_2, wins_counter,
                             step_counter, output>>
        /\ state = "Failed" => UNCHANGED vars ]_vars

\* the second plan record was malformed: the run failed at decoding and the
\* two lines of the first plan are still the whole output
C6_Witness ==
    /\ state = "Failed"
    /\ stage = "decode_failed"
    /\ line \in BadLines
    /\ step_counter = 1
    /\ Len(output) = 2

-----------------------------------------------------------------------------
(* C7 *)

\* the pairs with every value that is not a non-negative integer replaced by 0
ZeroBadValues(ps) ==
    [j \in DOMAIN ps |->
        IF ps[j].value.t = "u64" THEN ps[j] ELSE Entry(ps[j].key, U(0))]

\* C7: a plan with an entry whose value is not a non-negative integer is not
\* rejected and leaves the units exactly as the same plan with 0 in place of
\* that value would; a unit whose last addressing entry has such a value is
\* in district 0.
C7_BadValueIsZero ==
    [][ (PlanStep /\ line' \notin BadLines) =>
          \A ps \in {Pairs(line'.districting)} :
          \A tg \in {[j \in DOMAIN ps |->
                        Targets(district_list, district_map_2, ps[j].key)]} :
             /\ stage' # "decode_failed"
             /\ district_list' =
                   ApplyPairs(district_list, district_map_2, ZeroBadValues(ps))
             /\ \A i \in DOMAIN district_list :
                \A hits \in {{j \in DOMAIN ps : i \in tg[j]}} :
                   (hits # {} /\ ps[Greatest(hits)].value.t # "u64") =>
                       district_list'[i].assignment = 0 ]_vars

\* second plan: unit X/B, left in district 1 by the first plan, was sent to 0
\* by an entry with a negative value, and the entry for X/A before it in the
\* same object was applied too
C7_Witness ==
    /\ stage = "reported"
    /\ step_counter = 2
    /\ line.districting = << <<Entry(UnitKey("X", "B"), Neg(1)),
                               Entry(UnitKey("X", "A"), U(1))>> >>
    /\ district_list = [ScenarioRows EXCEPT ![1].assignment = 1]
    /\ output[2].won = 0

-----------------------------------------------------------------------------
(* C8 *)

\* C8: the output is one histogram line then one summary line per processed
\* plan, in order: it has two lines per plan tallied, the k-th pair is the
\* histogram and the summary of step k, and nothing is printed while the
\* leading records are skipped.
C8_OutputCadence ==
    /\ Len(output) = 2 * step_counter
    /\ \A k \in 1..step_counter :
          /\ output[2 * k - 1].kind = "histogram"
          /\ output[2 * k].kind = "summary"
          /\ output[2 * k].step = k
          /\ output[2 * k].wins = output[2 * k - 1].wins
          /\ SumBuckets(output[2 * k - 1].wins) = k
    /\ index <= SkipCount => output = <<>>
    /\ stage = "reported" => output[Len(output)].won = num_won

\* two plans were reported after the skipped records
C8_Witness == stage = "reported" /\ index = SkipCount + 2 /\ Len(output) = 4

-----------------------------------------------------------------------------
(* C9 *)

\* the number of distinct districts some unit is assigned to
DistinctAssigned == Cardinality({district_list[i].assignment : i \in DOMAIN district_list})

\* C9: the num_won of a plan is at least 0 and at most the number of distinct
\* districts that have a unit at aggregation time.
C9_NumWonBounded ==
    stage \in {"tally_panic", "reported"} =>
        (0 <= num_won /\ num_won <= DistinctAssigned)

\* a plan with units in two districts, one of them won
C9_Witness == stage = "reported" /\ num_won = 1 /\ DistinctAssigned = 2

-----------------------------------------------------------------------------
(* C10 *)

\* C10: on every summary line the numerator of the running average is the sum
\* over k of k * wins[k] of the histogram printed with it, which is the sum of
\* the win counts of the plans reported so far, and the divisor is their number.
C10_RunningAverage ==
    /\ \A k \in 1..(Len(output) \div 2) :
          /\ output[2 * k].avg_num = WeightedBuckets(output[2 * k - 1].wins)
          /\ output[2 * k].avg_num = WonSoFar(output, k)
          /\ output[2 * k].step = k
    /\ stage = "reported" =>
          /\ output[Len(output)].wins = wins_counter
          /\ output[Len(output)].step = step_counter

\* a plan with 2 wins and a plan with 1 win were reported: numerator 3 over 2
C10_Witness ==
    /\ stage = "reported"
    /\ step_counter = 2
    /\ output[2].won = 2
    /\ output[4].won = 1
    /\ output[4].avg_num = 3

-----------------------------------------------------------------------------
(* C11 *)

\* C11: the num_won of every plan that is aggregated is an index of the win
\* histogram, so the tally update does not fail for lack of a bucket.
C11_BucketForEveryWinCount ==
    stage \in {"tally_panic", "reported"} =>
        (num_won \in Buckets /\ ~TallyPanic(num_won) /\ state # "Failed")

-----------------------------------------------------------------------------
(* C12 *)

\* the lines whose record has the single pair (k, v)
SinglePair(k, v) == Record(<< <<Entry(k, v)>> >>)

\* the rows have the identities and votes of the scenario baseline
ScenarioUnits(dl) ==
    /\ Len(dl) = Len(ScenarioRows)
    /\ \A i \in DOMAIN dl : [dl[i] EXCEPT !.assignment = 0] = ScenarioRows[i]

\* C12: a plan whose only pair has a one-token key puts every unit of that
\* county in the pair's district and leaves the units of every other county
\* where they were; whatever came before it in a plan, a one-token pair
\* visited last leaves every unit of its county in its district. Scenario C:
\* ["X"] -> 3 on the scenario baseline puts both units in district 3, whose
\* totals are (12, 13), and num_won is 0.
C12_CountyBulkUpdate ==
    [][ (PlanStep /\ line' \notin BadLines) =>
          \A ps \in {Pairs(line'.districting)} :
             /\ (Len(ps) >= 1 /\ Len(AssignDistricts(ps[Len(ps)].key)) = 1) =>
                   \A i \in DOMAIN district_list :
                      district_list[i].county_name = AssignDistricts(ps[Len(ps)].key)[1]
                         => district_list'[i].assignment = DistrictOf(ps[Len(ps)].value)
             /\ (Len(ps) = 1 /\ Len(AssignDistricts(ps[1].key)) = 1) =>
                   \A i \in DOMAIN district_list :
                      district_list[i].county_name # AssignDistricts(ps[1].key)[1]
                         => district_list'[i].assignment = district_list[i].assignment
             /\ (line' = SinglePair(CountyKey("X"), U(3)) /\ ScenarioUnits(district_list)) =>
                   /\ \A i \in DOMAIN district_list : district_list'[i].assignment = 3
                   /\ CountElection1(district_list', 3) = 12
                   /\ CountElection2(district_list', 3) = 13
                   /\ stage' = "reported"
                   /\ num_won' = 0 ]_vars

\* ["X"] -> 3 was applied to the baseline with a unit of county Y: the two
\* rows of county X are in district 3 and the unit of county Y is still in 2
C12_Witness ==
    /\ stage = "reported"
    /\ line = SinglePair(CountyKey("X"), U(3))
    /\ district_list = [i \in DOMAIN DuplicateRows |->
                          IF i <= 2 THEN [DuplicateRows[i] EXCEPT !.assignment = 3]
                          ELSE DuplicateRows[i]]

-----------------------------------------------------------------------------
(* C13 *)

\* a key of one or two tokens
ValidShape(p) == Len(AssignDistricts(p.key)) \in {1, 2}

\* C13: the token count of a key selects the update. A plan of one pair
\* changes exactly the units its key addresses (the units of the county for
\* one token, the indexed unit for two tokens, none for any other count); the
\* pairs of any other token count change nothing, so a plan leaves the units
\* as the same plan without them would, and the record is not rejected.
\* Scenario D: the three-component key, written with or without a space after
\* the commas, changes no assignment of the scenario units.
C13_KeyShapeDispatch ==
    [][ (PlanStep /\ line' \notin BadLines) =>
          \A ps \in {Pairs(line'.districting)} :
             /\ stage' # "decode_failed"
             /\ district_list' =
                   ApplyPairs(district_list, district_map_2, SelectSeq(ps, ValidShape))
             /\ (\A j \in DOMAIN ps : ~ValidShape(ps[j])) => district_list' = district_list
             /\ Len(ps) = 1 =>
                   \A tg \in {Targets(district_list, district_map_2, ps[1].key)} :
                   \A i \in DOMAIN district_list :
                      district_list'[i].assignment =
                         IF i \in tg THEN DistrictOf(ps[1].value)
                         ELSE district_list[i].assignment
             /\ (line' \in {SinglePair(TripleKey("X", "A", "e"), U(2)),
                            SinglePair(TightTripleKey("X", "A", "e"), U(2))}) =>
                   district_list' = district_list ]_vars

\* second plan: its only pair has the three-token key; unit X/A is still in
\* district 1, where the first plan put it
C13_Witness ==
    /\ stage = "reported"
    /\ step_counter = 2
    /\ line = SinglePair(TripleKey("X", "A", "e"), U(2))
    /\ district_list = [ScenarioRows EXCEPT ![1].assignment = 1]

-----------------------------------------------------------------------------
(* C14 *)

\* the election_1 votes of the units assigned to district d
Votes1(dl, d) ==
    LET f[i \in 0..Len(dl)] ==
            IF i = 0 THEN 0
            ELSE f[i - 1] + (IF dl[i].assignment = d THEN dl[i].election_1 ELSE 0)
    IN  f[Len(dl)]

\* the election_2 votes of the units assigned to district d
Votes2(dl, d) ==
    LET f[i \in 0..Len(dl)] ==
            IF i = 0 THEN 0
            ELSE f[i - 1] + (IF dl[i].assignment = d THEN dl[i].election_2 ELSE 0)
    IN  f[Len(dl)]

\* the scenario units with X/A in district a and X/B in district b
ScenarioAt(a, b) ==
    [ScenarioRows EXCEPT ![1].assignment = a, ![2].assignment = b]

\* C14: the num_won of a plan is the number of districts whose election_1
\* total is strictly greater than their election_2 total; a district with
\* equal totals and a district without units are not counted. Scenario A
\* (both units in district 1) gives 0, Scenario B (districts 1 and 2) gives 1.
C14_StrictClassification ==
    stage \in {"tally_panic", "reported"} =>
        /\ num_won = Cardinality({d \in Districts :
                         Votes1(district_list, d) > Votes2(district_list, d)})
        /\ district_list = ScenarioAt(1, 1) => num_won = 0
        /\ district_list = ScenarioAt(1, 2) => num_won = 1

\* Scenario B was reported: district 1 is won with (10, 5) and district 2 is
\* not with (2, 8)
C14_Witness ==
    /\ stage = "reported"
    /\ district_list = ScenarioAt(1, 2)
    /\ num_won = 1

-----------------------------------------------------------------------------
(* C15 *)

\* C15: each of the first 3 lines of the stream is skipped whatever it holds:
\* the step changes no unit, no tally value, no output and does not fail the
\* run. From the fourth line on no line is skipped: a malformed one fails
\* the run at decoding and any other is applied.
C15_LeadingRecordsSkipped ==
    [][ /\ (index' = index + 1 /\ index < 3) =>
              /\ stage' = "skipped"
              /\ UNCHANGED <<state, error, district_list, district_map_2, num_won,
                             wins_counter, step_counter, output>>
        /\ (index' = index + 1 /\ index >= 3) =>
              /\ stage' # "skipped"
              /\ line' \in BadLines <=> stage' = "decode_failed" ]_vars

\* the third line was one that does not decode, and the run is still
\* streaming with nothing changed or printed
C15_Witness ==
    /\ index = 3
    /\ stage = "skipped"
    /\ line \in BadLines
    /\ state = "StreamingPlans"
    /\ district_list = ScenarioRows
    /\ step_counter = 0
    /\ output = <<>>

-----------------------------------------------------------------------------
(* C16 *)

\* C16: a plan leaves every unit that none of its pairs addresses in the
\* district it was in before the plan, and no other step of the stream
\* changes a unit: assignments carry over from plan to plan.
C16_AssignmentsPersist ==
    [][ /\ (PlanStep /\ line' \notin BadLines) =>
              \A ps \in {Pairs(line'.districting)} :
              \A tg \in {UNION {Targets(district_list, district_map_2, ps[j].key) :
                                   j \in DOMAIN ps}} :
              \A i \in DOMAIN district_list :
                 i \notin tg => district_list'[i].assignment = district_list[i].assignment
        /\ (state # "LoadingBaseline" /\ ~(PlanStep /\ line' \notin BadLines)) =>
              district_list' = district_list ]_vars

\* second plan: it addresses X/B alone, and X/A is still in district 1, where
\* the first plan put it (the baseline had it in 0)
C16_Witness ==
    /\ stage = "reported"
    /\ step_counter = 2
    /\ line = SinglePair(UnitKey("X", "B"), U(2))
    /\ district_list = ScenarioAt(1, 2)

-----------------------------------------------------------------------------
(* C17 *)

\* C17: after loading, no step changes the number or order of the units,
\* the county_name, precinct_name, election_1 or election_2 of a unit, or
\* the identity index; a step changes assignments at most.
C17_OnlyAssignmentsChange ==
    [][ state # "LoadingBaseline" =>
          /\ Len(district_list') = Len(district_list)
          /\ \A i \in DOMAIN district_list :
                [district_list'[i] EXCEPT !.assignment = district_list[i].assignment]
                    = district_list[i]
          /\ district_map_2' = district_map_2
          /\ district_map_2' = BuildIndex(district_list') ]_vars

\* two plans moved both scenario units; names, votes, order and index are
\* those of the baseline
C17_Witness ==
    /\ stage = "reported"
    /\ step_counter = 2
    /\ district_list = ScenarioAt(1, 1)
    /\ district_map_2 = BuildIndex(ScenarioRows)

-----------------------------------------------------------------------------
(* C18 *)

\* the identity of the unit at position i
Identity(dl, i) == <<dl[i].county_name, dl[i].precinct_name>>

\* position i is not the last row of its identity
Shadowed(dl, i) == \E j \in DOMAIN dl : j > i /\ Identity(dl, j) = Identity(dl, i)

\* some pair of ps is a county-only pair for the county of position i
CountyAddressed(dl, ps, i) ==
    \E j \in DOMAIN ps : AssignDistricts(ps[j].key) = <<dl[i].county_name>>

\* C18: the index maps every identity to its last row. A plan changes a row
\* that a later row shares its identity with only through a county-only
\* pair; a single county+precinct pair for a known identity sets the
\* identity's last row and no other row; a single county-only pair sets
\* every row of the county, the earlier duplicates included.
C18_DuplicateIdentities ==
    [][ (PlanStep /\ line' \notin BadLines) =>
          \A ps \in {Pairs(line'.districting)} :
             /\ \A k \in DOMAIN district_map_2 :
                   district_map_2[k] =
                       Greatest({i \in DOMAIN district_list : Identity(district_list, i) = k})
             /\ \A i \in DOMAIN district_list :
                   (Shadowed(district_list, i) /\ ~CountyAddressed(district_list, ps, i))
                       => district_list'[i].assignment = district_list[i].assignment
             /\ (Len(ps) = 1 /\ Len(AssignDistricts(ps[1].key)) = 2) =>
                   \A i \in DOMAIN district_list :
                      district_list'[i].assignment =
                          IF /\ Identity(district_list, i) = <<AssignDistricts(ps[1].key)[1],
                                                               AssignDistricts(ps[1].key)[2]>>
                             /\ ~Shadowed(district_list, i)
                          THEN DistrictOf(ps[1].value)
                          ELSE district_list[i].assignment
             /\ (Len(ps) = 1 /\ Len(AssignDistricts(ps[1].key)) = 1) =>
                   \A i \in DOMAIN district_list :
                      district_list[i].county_name = AssignDistricts(ps[1].key)[1]
                          => district_list'[i].assignment = DistrictOf(ps[1].value) ]_vars

\* rows 1 and 2 are both X/A; the pair for X/A moved row 2 from 4 to 1 and
\* left row 1 in 0
C18_Witness ==
    /\ stage = "reported"
    /\ step_counter = 1
    /\ line = SinglePair(UnitKey("X", "A"), U(1))
    /\ district_list = [DuplicateRows EXCEPT ![2].assignment = 1]

-----------------------------------------------------------------------------
(* C19 *)

\* C19: the driver moves only from LoadingBaseline to StreamingPlans or
\* Failed and from StreamingPlans to Done or Failed; it fails only when the
\* baseline or the plan stream cannot be loaded or when a record that is not
\* skipped does not decode, so that a run whose baseline loaded and whose
\* records all decoded ends in Done; in Done and in Failed nothing changes.
C19_DriverProgress ==
    [][ /\ <<state, state'>> \in
              { <<"LoadingBaseline", "StreamingPlans">>, <<"LoadingBaseline", "Failed">>,
                <<"StreamingPlans", "StreamingPlans">>, <<"StreamingPlans", "Done">>,
                <<"StreamingPlans", "Failed">> }
        /\ state \in {"Done", "Failed"} => UNCHANGED vars
        /\ (state = "StreamingPlans" /\ state' = "Failed") => stage' = "decode_failed"
        /\ (state = "StreamingPlans" /\ stage' = "decode_failed") => state' = "Failed" ]_vars

-----------------------------------------------------------------------------
(* C20 *)

\* the sum of the election_1 totals of the districts of S
RECURSIVE SumCounts1(_, _)
SumCounts1(dl, S) ==
    IF S = {} THEN 0
    ELSE LET d == CHOOSE x \in S : TRUE
         IN  CountElection1(dl, d) + SumCounts1(dl, S \ {d})

\* the sum of the election_2 totals of the districts of S
RECURSIVE SumCounts2(_, _)
SumCounts2(dl, S) ==
    IF S = {} THEN 0
    ELSE LET d == CHOOSE x \in S : TRUE
         IN  CountElection2(dl, d) + SumCounts2(dl, S \ {d})

\* the election_1 votes of the first n units
RECURSIVE UnitVotes1(_, _)
UnitVotes1(dl, n) == IF n = 0 THEN 0 ELSE UnitVotes1(dl, n - 1) + dl[n].election_1

\* the election_2 votes of the first n units
RECURSIVE UnitVotes2(_, _)
UnitVotes2(dl, n) == IF n = 0 THEN 0 ELSE UnitVotes2(dl, n - 1) + dl[n].election_2

\* C20: when every unit's assignment is below TotalsSize, the election_1
\* totals of all the districts add up to the election_1 votes of all the
\* units, and likewise for election_2: the districts no unit is assigned to
\* total 0 and the others share the units' votes, each unit counting in the
\* one district it is assigned to.
C20_VoteConservation ==
    (Decoded /\ ~TotalsPanic(district_list)) =>
        /\ \A d \in Districts \ Assigned(district_list) :
              /\ CountElection1(district_list, d) = 0
              /\ CountElection2(district_list, d) = 0
        /\ SumCounts1(district_list, Assigned(district_list))
              = UnitVotes1(district_list, Len(district_list))
        /\ SumCounts2(district_list, Assigned(district_list))
              = UnitVotes2(district_list, Len(district_list))
        /\ \A i \in DOMAIN district_list :
              Cardinality({d \in Districts : district_list[i].assignment = d}) = 1

\* the scenario units are in districts 0 and 2: the totals are (10, 5) and
\* (2, 8), (12, 13) in all
C20_Witness ==
    /\ stage = "reported"
    /\ step_counter = 1
    /\ district_list = ScenarioAt(0, 2)
    /\ SumCounts1(district_list, Assigned(district_list)) = 12
    /\ SumCounts2(district_list, Assigned(district_list)) = 13

====
